---------------------------- MODULE Spec2Model ----------------------------
(***************************************************************************)
(* A model of pps.py: the recursive directory-tree renderer                *)
(* print_directory_tree, the text and PDF sinks, and the interactive run   *)
(* of main.                                                                *)
(*                                                                         *)
(* Strings are sequences of one-character strings, so that concatenation,  *)
(* comparison, strip, lower, join and split are computed, not assumed.     *)
(* A path is the sequence of entry names below the directory the run       *)
(* starts in; << >> is that directory itself.                              *)
(***************************************************************************)
EXTENDS Integers, Sequences, FiniteSets, TLC

VARIABLES
    fs,             \* the filesystem under the start directory: path -> kind
    pc,             \* position of the run
    call_prefix,    \* prefix argument of the top-level print_directory_tree call
    tree_lines,     \* the list returned by the top-level call
    raised,         \* TRUE when an exception left the program uncaught
    raw_choice,     \* what the user typed at the format prompt
    choice,         \* main's choice (stripped, lower-cased)
    console,        \* messages and prompts shown so far
    documents_dir,  \* TRUE once ~/Documents/pps was created by this run
    out_file,       \* the output file: NoFile or a record
    opened,         \* TRUE once webbrowser.open was called
    fault           \* which environment fault occurred during the run

vars == <<fs, pc, call_prefix, tree_lines, raised, raw_choice, choice, console,
          documents_dir, out_file, opened, fault>>

---------------------------------------------------------------------------
(* Bounds *)

\* Largest number of entries (at any depth) below the start directory in the
\* renderer's specification.
MaxEntries == 4

\* Largest number of entries below the start directory when main runs.
MainEntries == 3

---------------------------------------------------------------------------
(* Strings *)

\* Code points of the characters that occur in entry names.
Ord(c) ==
    CASE c = "\n" -> 10
      [] c = "B"  -> 66
      [] c = "a"  -> 97
      [] c = "b"  -> 98

\* Entry names, in ascending code-point order.
NameSeq == << <<"B">>, <<"a">>, <<"b", "\n">> >>

NameSet == { NameSeq[i] : i \in 1..Len(NameSeq) }

\* Python's < on str: lexicographic by code point, a proper prefix is smaller.
RECURSIVE str_lt(_, _)
str_lt(a, b) ==
    IF b = << >> THEN FALSE
    ELSE IF a = << >> THEN TRUE
    ELSE IF Head(a) # Head(b) THEN Ord(Head(a)) < Ord(Head(b))
    ELSE str_lt(Tail(a), Tail(b))

\* sorted(): the ascending sequence of a collection of distinct strings.
RECURSIVE sorted(_)
sorted(S) ==
    IF S = {} THEN << >>
    ELSE LET m == CHOOSE x \in S : \A y \in S \ {x} : str_lt(x, y)
         IN  <<m>> \o sorted(S \ {m})

---------------------------------------------------------------------------
(* The filesystem *)

\* "file": a regular file (or a link to one); "dir": a directory that can be
\* listed; "noperm": a directory whose listing fails; "other": an entry that
\* is neither (a FIFO, a socket, a device, a dangling symbolic link).
Kinds == {"file", "dir", "noperm", "other"}

Leaf(p, k) == [q \in {p} |-> k]

EmptyMap == [q \in {} |-> "file"]

Merge(f, g) == [q \in (DOMAIN f) \cup (DOMAIN g) |-> IF q \in DOMAIN f THEN f[q] ELSE g[q]]

RECURSIVE Fill(_, _, _)

\* Entry(d, i, b): every way to have, or not to have, the entry NameSeq[i]
\* in directory d with at most b entries in all (the entry and, if it is a
\* directory, what it contains), as pairs <<entries used, map>>.
Entry(d, i, b) ==
    IF b = 0 THEN { <<0, EmptyMap>> }
    ELSE LET p == Append(d, NameSeq[i])
         IN  { <<0, EmptyMap>> }
             \cup { <<1, Leaf(p, k)>> : k \in Kinds \ {"dir"} }
             \cup { <<1 + s[1], Merge(Leaf(p, "dir"), s[2])>> : s \in Fill(p, 1, b - 1) }

\* Fill(d, i, b): every way to populate directory d with the names
\* NameSeq[i..] using at most b entries in all.
Fill(d, i, b) ==
    IF i > Len(NameSeq) \/ b = 0 THEN { <<0, EmptyMap>> }
    ELSE LET here == Entry(d, i, b)
             rest(c) == Fill(d, i + 1, b - c)
         IN  UNION { LET R == rest(c)
                     IN  { <<c + r[1], Merge(t[2], r[2])>> :
                              t \in { u \in here : u[1] = c }, r \in R }
                     : c \in 0..b }

\* fs is a filesystem with at most n entries below the start directory:
\* the start directory cannot be listed, or it holds any choice of the
\* three names of NameSeq.
IsFileSystem(n) ==
    \/ fs = Leaf(<< >>, "noperm")
    \/ \E t1 \in Entry(<< >>, 1, n) :
       \E t2 \in Entry(<< >>, 2, n - t1[1]) :
       \E t3 \in Entry(<< >>, 3, n - t1[1] - t2[1]) :
          fs = Merge(Leaf(<< >>, "dir"), Merge(t1[2], Merge(t2[2], t3[2])))

---------------------------------------------------------------------------
(* print_directory_tree *)

\* os.path.join(directory, entry)
join(directory, entry) == Append(directory, entry)

\* os.path.isfile / os.path.isdir of a path that os.listdir returned
isfile(path) == fs[path] = "file"

isdir(path) == fs[path] \in {"dir", "noperm"}

\* The outcome of a call: the returned list, or an exception that left it.
Return(lines) == [raised |-> FALSE, lines |-> lines]

Raise == [raised |-> TRUE, lines |-> << >>]

\* listdir with the error swallowed: an unreadable directory lists as empty.
listdir_swallowed(directory) ==
    [raised |-> FALSE,
     names  |-> { nm \in NameSet : Append(directory, nm) \in DOMAIN fs }]

\* os.listdir(directory): the names in the directory, or OSError.
listdir(directory) ==
    IF fs[directory] = "noperm" THEN [raised |-> TRUE, names |-> {}]
    ELSE [raised |-> FALSE,
          names  |-> { nm \in NameSet : join(directory, nm) \in DOMAIN fs }]

\* The grave accent (code point 96), written as a word because a TLA+ string
\* cannot hold that character.
Grave == "grave"

\* symbol = (grave accent)"-- " if is_last else "|-- "
symbol(is_last) ==
    IF is_last THEN <<Grave, "-", "-", " ">> ELSE <<"|", "-", "-", " ">>

\* new_prefix with the two continuations exchanged.
new_prefix_swapped(prefix, is_last) ==
    prefix \o (IF is_last THEN <<"|", " ", " ", " ">> ELSE <<" ", " ", " ", " ">>)

\* new_prefix = prefix + ("    " if is_last else "|   ")
new_prefix(prefix, is_last) ==
    prefix \o (IF is_last THEN <<" ", " ", " ", " ">> ELSE <<"|", " ", " ", " ">>)

\* The heading line without the trailing separator.
dir_line_no_slash(prefix, sym, subdir) == prefix \o sym \o subdir

\* prefix + symbol + subdir + "/"
dir_line(prefix, sym, subdir) == prefix \o sym \o subdir \o <<"/">>

\* prefix + symbol + file
file_line(prefix, sym, file) == prefix \o sym \o file

\* is_last compared with len(items): never true inside the loop.
is_last_index_off_by_one(i, items) == i = Len(items)

\* is_last = i == len(items) - 1, for the 0-based index i of enumerate
is_last_index(i, items) == i = Len(items) - 1

\* the second loop: one line per file
files_loop(prefix, files) ==
    [k \in 1..Len(files) |->
        file_line(prefix, symbol(is_last_index(k - 1, files)), files[k])]

\* The lines of the file loop placed before those of the directory loop.
output_of_files_first(dir_lines, file_lines) == file_lines \o dir_lines

\* how the lines of the two loops end up in output_lines
output_of(dir_lines, file_lines) == dir_lines \o file_lines

RECURSIVE print_directory_tree(_, _)

\* the first loop, from the 0-based index i on: a heading line per
\* subdirectory, followed by the lines of the recursive call
RECURSIVE dirs_loop(_, _, _, _)
dirs_loop(directory, prefix, dirs, i) ==
    IF i >= Len(dirs) THEN Return(<< >>)
    ELSE LET subdir  == dirs[i + 1]
             is_last == is_last_index(i, dirs)
             head    == dir_line(prefix, symbol(is_last), subdir)
             sub     == print_directory_tree(join(directory, subdir),
                                             new_prefix(prefix, is_last))
             rest    == dirs_loop(directory, prefix, dirs, i + 1)
         IN  IF sub.raised THEN Raise
             ELSE IF rest.raised THEN Raise
             ELSE Return(<<head>> \o sub.lines \o rest.lines)

\* print_directory_tree that starts its list with a line for the directory
\* itself.
print_directory_tree_own_line(directory, prefix) ==
    LET ls == listdir(directory)
    IN  IF ls.raised THEN Raise
        ELSE LET entries == sorted(ls.names)
                 files   == SelectSeq(entries, LAMBDA e : isfile(join(directory, e)))
                 dirs    == SelectSeq(entries, LAMBDA e : isdir(join(directory, e)))
                 d       == dirs_loop(directory, prefix, dirs, 0)
             IN  IF d.raised THEN Raise
                 ELSE Return(<<prefix \o <<".">> >>
                             \o output_of(d.lines, files_loop(prefix, files)))

print_directory_tree(directory, prefix) ==
    LET ls == listdir(directory)
    IN  IF ls.raised THEN Raise
        ELSE LET entries == sorted(ls.names)
                 files   == SelectSeq(entries, LAMBDA e : isfile(join(directory, e)))
                 dirs    == SelectSeq(entries, LAMBDA e : isdir(join(directory, e)))
                 d       == dirs_loop(directory, prefix, dirs, 0)
             IN  IF d.raised THEN Raise
                 ELSE Return(output_of(d.lines, files_loop(prefix, files)))

---------------------------------------------------------------------------
(* The state before anything ran *)

NoFile == [kind |-> "none"]

Idle ==
    /\ call_prefix = << >>
    /\ tree_lines = << >>
    /\ raised = FALSE
    /\ raw_choice = << >>
    /\ choice = << >>
    /\ console = << >>
    /\ documents_dir = FALSE
    /\ out_file = NoFile
    /\ opened = FALSE
    /\ fault = "none"

---------------------------------------------------------------------------
(* A caller of print_directory_tree *)

\* Prefixes a caller passes: the default "", a prefix the recursion builds,
\* and an arbitrary string.
Prefixes == { << >>, <<"|", " ", " ", " ">>, <<"a">> }

InitTree ==
    /\ IsFileSystem(MaxEntries)
    /\ pc = "idle"
    /\ Idle

\* tree_lines = print_directory_tree(directory, p) on the start directory;
\* the subtree of every subdirectory is itself one of the filesystems of
\* InitTree, so every directory is the start directory of some behaviour.
Call(p) ==
    /\ pc = "idle"
    /\ LET r == print_directory_tree(<< >>, p)
       IN  /\ tree_lines' = r.lines
           /\ raised' = r.raised
    /\ call_prefix' = p
    /\ pc' = "returned"
    /\ UNCHANGED <<fs, raw_choice, choice, console, documents_dir, out_file,
                   opened, fault>>

NextTree == \E p \in Prefixes : Call(p)

SpecTree == InitTree /\ [][NextTree]_vars

---------------------------------------------------------------------------
(* The sinks *)

\* A newline after every line instead of between the lines.
RECURSIVE join_lines_terminated(_)
join_lines_terminated(lines) ==
    IF lines = << >> THEN << >>
    ELSE lines[1] \o <<"\n">> \o join_lines_terminated(Tail(lines))

\* "\n".join(lines)
RECURSIVE join_lines(_)
join_lines(lines) ==
    IF lines = << >> THEN << >>
    ELSE IF Len(lines) = 1 THEN lines[1]
    ELSE lines[1] \o <<"\n">> \o join_lines(Tail(lines))

\* save_to_text_file: the content of the file after the write
save_to_text_file(lines) ==
    [kind |-> "txt", content |-> join_lines(lines), complete |-> TRUE]

\* save_to_pdf: one cell per line, in order
save_to_pdf(lines) ==
    [kind |-> "pdf", content |-> lines, complete |-> TRUE]

\* The file an interrupted write leaves: created or truncated, without the
\* content.
Truncated(kind) == [kind |-> kind, content |-> << >>, complete |-> FALSE]

---------------------------------------------------------------------------
(* main *)

Whitespace == {" ", "\t", "\n"}

\* str.strip(): leading and trailing whitespace removed
RECURSIVE lstrip(_)
lstrip(s) ==
    IF s # << >> /\ Head(s) \in Whitespace THEN lstrip(Tail(s)) ELSE s

RECURSIVE rstrip(_)
rstrip(s) ==
    IF s # << >> /\ s[Len(s)] \in Whitespace THEN rstrip(SubSeq(s, 1, Len(s) - 1)) ELSE s

strip(s) == rstrip(lstrip(s))

\* str.lower() on the letters the answers use
lower(s) ==
    [i \in 1..Len(s) |->
        CASE s[i] = "P" -> "p"
          [] s[i] = "T" -> "t"
          [] s[i] = "C" -> "c"
          [] s[i] = "Y" -> "y"
          [] OTHER -> s[i]]

\* What the user may type at the format prompt.
FormatAnswers ==
    { <<"p">>, <<" ", "P", " ">>, <<"T">>, <<"t", "\t">>, <<"c">>, << >>, <<"p", "t">> }

\* What the user may type at the open prompt.
OpenAnswers == { <<"y">>, <<" ", "Y">>, <<"n">>, << >> }

\* The cancel test that recognises only the answer c.
is_cancel_only_c(c) == c = <<"c">>

\* choice not in ["p", "t"]
is_cancel(c) == c \notin { <<"p">>, <<"t">> }

Init ==
    /\ IsFileSystem(MainEntries)
    /\ pc = "start"
    /\ Idle

\* main up to the first prompt: the header, the walk of the current
\* directory, the printed tree.  An exception of the walk leaves main.
Render ==
    /\ pc = "start"
    /\ LET r == print_directory_tree(<< >>, << >>)
       IN  IF r.raised
           THEN /\ raised' = TRUE
                /\ fault' = "listdir"
                /\ console' = <<"header">>
                /\ pc' = "done"
                /\ UNCHANGED tree_lines
           ELSE /\ tree_lines' = r.lines
                /\ console' = <<"header", "tree">>
                /\ pc' = "ask_format"
                /\ UNCHANGED <<raised, fault>>
    /\ UNCHANGED <<fs, call_prefix, raw_choice, choice, documents_dir, out_file, opened>>

\* The format prompt and the cancel test.
AskFormat(raw) ==
    /\ pc = "ask_format"
    /\ raw_choice' = raw
    /\ choice' = lower(strip(raw))
    /\ IF is_cancel(choice')
       THEN /\ console' = console \o <<"ask_format", "canceled">>
            /\ pc' = "done"
       ELSE /\ console' = Append(console, "ask_format")
            /\ pc' = "mkdir"
    /\ UNCHANGED <<fs, call_prefix, tree_lines, raised, documents_dir, out_file,
                   opened, fault>>

\* documents_dir.mkdir(parents=True, exist_ok=True), outside any try: it
\* creates the directory, or its exception leaves main.
MakeDir(ok) ==
    /\ pc = "mkdir"
    /\ IF ok
       THEN /\ documents_dir' = TRUE
            /\ pc' = "save"
            /\ UNCHANGED <<raised, fault>>
       ELSE /\ raised' = TRUE
            /\ fault' = "mkdir"
            /\ pc' = "done"
            /\ UNCHANGED documents_dir
    /\ UNCHANGED <<fs, call_prefix, tree_lines, raw_choice, choice, console,
                   out_file, opened>>

\* The try block around the two sinks, its handler, the success message.
\* how: the write succeeds, fails before the file is opened, or fails
\* after the file was opened for writing.
Save(how) ==
    /\ pc = "save"
    /\ LET kind == IF choice = <<"p">> THEN "pdf" ELSE "txt"
       IN  CASE how = "ok" ->
                  /\ out_file' = IF choice = <<"p">> THEN save_to_pdf(tree_lines)
                                 ELSE IF choice = <<"t">> THEN save_to_text_file(tree_lines)
                                 ELSE out_file
                  /\ console' = Append(console, "saved")
                  /\ pc' = "ask_open"
                  /\ UNCHANGED fault
             [] how = "open_fails" ->
                  /\ UNCHANGED out_file
                  /\ console' = Append(console, "save_error")
                  /\ fault' = "save"
                  /\ pc' = "done"
             [] how = "write_fails" ->
                  /\ out_file' = Truncated(kind)
                  /\ console' = Append(console, "save_error")
                  /\ fault' = "save"
                  /\ pc' = "done"
    /\ UNCHANGED <<fs, call_prefix, tree_lines, raised, raw_choice, choice,
                   documents_dir, opened>>

\* The open prompt and webbrowser.open.
AskOpen(raw) ==
    /\ pc = "ask_open"
    /\ console' = Append(console, "ask_open")
    /\ opened' = (lower(strip(raw)) = <<"y">>)
    /\ pc' = "done"
    /\ UNCHANGED <<fs, call_prefix, tree_lines, raised, raw_choice, choice,
                   documents_dir, out_file, fault>>

Next ==
    \/ Render
    \/ \E raw \in FormatAnswers : AskFormat(raw)
    \/ \E ok \in BOOLEAN : MakeDir(ok)
    \/ \E how \in {"ok", "open_fails", "write_fails"} : Save(how)
    \/ \E raw \in OpenAnswers : AskOpen(raw)

Spec == Init /\ [][Next]_vars

---------------------------------------------------------------------------
(* What the claims about the renderer speak of *)

Last(q) == q[Len(q)]

Parent(q) == SubSeq(q, 1, Len(q) - 1)

Pre(q, k) == SubSeq(q, 1, k)

EndsWith(s, t) ==
    /\ Len(s) >= Len(t)
    /\ SubSeq(s, Len(s) - Len(t) + 1, Len(s)) = t

\* Every entry below the start directory, at any depth.
Children == (DOMAIN fs) \ { << >> }

IsDirectory(q) == fs[q] \in {"dir", "noperm"}

IsRegular(q) == fs[q] = "file"

\* The entries that are a file or a directory.
Visible == { q \in Children : IsDirectory(q) \/ IsRegular(q) }

\* The position of the first component in which two paths differ.
FirstDiff(q1, q2) ==
    CHOOSE k \in 1..Len(q1) : q1[k] # q2[k] /\ \A j \in 1..(k - 1) : q1[j] = q2[j]

IsProperPrefix(q1, q2) == Len(q1) < Len(q2) /\ Pre(q2, Len(q1)) = q1

\* The order the claims describe: a directory precedes what it contains;
\* of two siblings a subdirectory (with all it contains) precedes a file;
\* two siblings of the same kind go by ascending code-point order of names.
Before(q1, q2) ==
    IF IsProperPrefix(q1, q2) THEN TRUE
    ELSE IF IsProperPrefix(q2, q1) THEN FALSE
    ELSE LET k == FirstDiff(q1, q2)
             a == Pre(q1, k)
             b == Pre(q2, k)
         IN  IF IsDirectory(a) # IsDirectory(b) THEN IsDirectory(a)
             ELSE str_lt(q1[k], q2[k])

RECURSIVE InOrder(_)
InOrder(S) ==
    IF S = {} THEN << >>
    ELSE LET m == CHOOSE x \in S : \A y \in S \ {x} : Before(x, y)
         IN  <<m>> \o InOrder(S \ {m})

\* The visible entries in the order of the claims.
RenderOrder == InOrder(Visible)

\* The siblings of q that are of the same group (subdirectories, or files).
Group(q) ==
    { r \in Visible : Len(r) = Len(q) /\ Parent(r) = Parent(q)
                      /\ IsDirectory(r) = IsDirectory(q) }

\* q is the last of its group in ascending name order.
IsLastOfGroup(q) == \A r \in Group(q) \ {q} : str_lt(Last(r), Last(q))

\* The parts of a line that renders entry q: indentation, glyph, name.
TailLen(line, q) == Len(Last(q)) + (IF line[Len(line)] = "/" THEN 1 ELSE 0)

WellFormed(line, q) == Len(line) >= Len(Last(q)) + 4 /\ Len(line) >= TailLen(line, q) + 4

GlyphOf(line, q) ==
    SubSeq(line, Len(line) - TailLen(line, q) - 3, Len(line) - TailLen(line, q))

IndentOf(line, q) == SubSeq(line, 1, Len(line) - TailLen(line, q) - 4)

LastGlyph == <<Grave, "-", "-", " ">>

MidGlyph == <<"|", "-", "-", " ">>

\* The call returned a list (no exception), one line per visible entry.
Returned == pc = "returned" /\ ~raised

\* C1: the lines follow the order in which, at every level, all
\* subdirectory blocks (heading, then the subdirectory's own lines) come
\* first in ascending case-sensitive name order and all file lines come
\* after them in ascending case-sensitive name order.
C1_DirsThenFilesSorted ==
    Returned =>
        /\ Len(tree_lines) = Len(RenderOrder)
        /\ \A i \in 1..Len(tree_lines) :
              LET name == Last(RenderOrder[i])
              IN  \/ EndsWith(tree_lines[i], name)
                  \/ EndsWith(tree_lines[i], name \o <<"/">>)

\* A subdirectory with content and a file whose name sorts before the
\* subdirectory's name, at the same level.
C1_Witness ==
    /\ Returned
    /\ \E d, f \in Visible :
          /\ Len(d) = 1 /\ Len(f) = 1
          /\ IsDirectory(d) /\ IsRegular(f)
          /\ str_lt(Last(f), Last(d))
          /\ \E q \in Visible : IsProperPrefix(d, q)

\* C2: within the subdirectories of a level exactly the last one in sorted
\* order has the closing glyph and the others the branching glyph; the same
\* within the files of the level; so a level with a subdirectory and a file
\* has two closing glyphs.
C2_GlyphPerGroup ==
    Returned =>
        /\ Len(tree_lines) = Len(RenderOrder)
        /\ \A i \in 1..Len(tree_lines) :
              LET q == RenderOrder[i]
                  line == tree_lines[i]
              IN  /\ WellFormed(line, q)
                  /\ GlyphOf(line, q) = (IF IsLastOfGroup(q) THEN LastGlyph ELSE MidGlyph)
        /\ \A d \in (DOMAIN fs) :
              LET level == { i \in 1..Len(tree_lines) : Parent(RenderOrder[i]) = d }
              IN  (/\ \E i \in level : IsDirectory(RenderOrder[i])
                   /\ \E i \in level : IsRegular(RenderOrder[i]))
                  => Cardinality({ i \in level :
                        GlyphOf(tree_lines[i], RenderOrder[i]) = LastGlyph }) = 2

\* Two subdirectories and a file at one level.
C2_Witness ==
    /\ Returned
    /\ \E d1, d2, f \in Visible :
          /\ Len(d1) = 1 /\ Len(d2) = 1 /\ Len(f) = 1
          /\ d1 # d2
          /\ IsDirectory(d1) /\ IsDirectory(d2) /\ IsRegular(f)

\* The indentation the claim describes for entry q: one segment per
\* ancestor directory below the start directory.
RECURSIVE Segments(_, _)
Segments(q, k) ==
    IF k >= Len(q) THEN << >>
    ELSE (IF IsLastOfGroup(Pre(q, k)) THEN <<" ", " ", " ", " ">>
                                      ELSE <<"|", " ", " ", " ">>)
         \o Segments(q, k + 1)

\* C3: after a top-level call with prefix "", the line of an entry N
\* directories below the start directory is indented by exactly N segments
\* of four characters, the k-th being four spaces if the k-th ancestor was
\* the last subdirectory among its sibling subdirectories and a pipe and
\* three spaces otherwise.
C3_PrefixSegments ==
    (Returned /\ call_prefix = << >>) =>
        /\ Len(tree_lines) = Len(RenderOrder)
        /\ \A i \in 1..Len(tree_lines) :
              LET q == RenderOrder[i]
                  line == tree_lines[i]
              IN  /\ WellFormed(line, q)
                  /\ Len(IndentOf(line, q)) = 4 * (Len(q) - 1)
                  /\ IndentOf(line, q) = Segments(q, 1)

\* An entry two directories down whose first ancestor is not the last
\* subdirectory of its level and whose second ancestor is.
C3_Witness ==
    /\ Returned
    /\ call_prefix = << >>
    /\ \E q \in Visible :
          /\ Len(q) = 3
          /\ ~IsLastOfGroup(Pre(q, 1))
          /\ IsLastOfGroup(Pre(q, 2))

\* C4: the returned lines correspond one to one to the entries below the
\* directory, whatever their kind.
C4_OneLinePerChild ==
    Returned =>
        /\ Len(tree_lines) = Cardinality(Children)
        /\ \A q \in Children : \E i \in 1..Len(tree_lines) :
              \/ EndsWith(tree_lines[i], Last(q))
              \/ EndsWith(tree_lines[i], Last(q) \o <<"/">>)

\* C6: a line that renders a directory ends with "/", a line that renders
\* a file does not.
C6_SlashIffDirectory ==
    Returned =>
        /\ Len(tree_lines) = Len(RenderOrder)
        /\ \A i \in 1..Len(tree_lines) :
              LET line == tree_lines[i]
              IN  (line[Len(line)] = "/") <=> IsDirectory(RenderOrder[i])

\* A directory and a file are rendered.
C6_Witness ==
    /\ Returned
    /\ \E d, f \in Visible : IsDirectory(d) /\ IsRegular(f)

\* C9: for a directory without entries the call returns the empty list,
\* whatever the prefix.
C9_EmptyDirectory ==
    (pc = "returned" /\ fs[<< >>] = "dir" /\ Children = {}) =>
        /\ ~raised
        /\ tree_lines = << >>

\* An empty directory rendered with a non-empty prefix.
C9_Witness ==
    /\ pc = "returned"
    /\ fs[<< >>] = "dir"
    /\ Children = {}
    /\ call_prefix # << >>
    /\ tree_lines = << >>

---------------------------------------------------------------------------
(* What the claims about main and the sinks speak of *)

Has(tag) == \E i \in 1..Len(console) : console[i] = tag

Position(tag) == CHOOSE i \in 1..Len(console) : console[i] = tag

\* Splitting a text by newline: the pieces between the newlines, one more
\* piece than there are newlines.
RECURSIVE SplitByNewline(_)
SplitByNewline(text) ==
    IF \A i \in 1..Len(text) : text[i] # "\n" THEN <<text>>
    ELSE LET k == CHOOSE i \in 1..Len(text) :
                     text[i] = "\n" /\ \A j \in 1..(i - 1) : text[j] # "\n"
         IN  <<SubSeq(text, 1, k - 1)>> \o SplitByNewline(SubSeq(text, k + 1, Len(text)))

HasNewline(line) == \E i \in 1..Len(line) : line[i] = "\n"

TextSaved == out_file.kind = "txt" /\ out_file.complete

\* C5: when a directory the walk reaches (the start directory or one below
\* it) cannot be listed, the error leaves print_directory_tree and main: no
\* list is returned, nothing is printed after the header, no prompt is
\* shown, nothing is saved.
C5_UnreadableDirectoryAborts ==
    (pc # "start" /\ \E q \in DOMAIN fs : fs[q] = "noperm") =>
        /\ raised
        /\ fault = "listdir"
        /\ pc = "done"
        /\ tree_lines = << >>
        /\ console = <<"header">>
        /\ out_file = NoFile
        /\ ~documents_dir
        /\ ~opened

\* The unreadable directory lies below a subdirectory, and the walk had
\* lines to return for entries next to it.
C5_Witness ==
    /\ pc = "done"
    /\ raised
    /\ \E q \in DOMAIN fs : Len(q) = 2 /\ fs[q] = "noperm"
    /\ \E q \in DOMAIN fs : Len(q) = 1 /\ fs[q] = "file"

\* C7 as stated: the written text, split by newline, is the line sequence,
\* for every line sequence including the empty one.
C7_RoundTripAnySequence ==
    TextSaved => SplitByNewline(out_file.content) = tree_lines

\* C7 as amended: the round trip holds for every non-empty line sequence
\* none of whose lines contains a newline.
C7_RoundTripNonEmptyNoNewline ==
    (/\ TextSaved
     /\ tree_lines # << >>
     /\ \A i \in 1..Len(tree_lines) : ~HasNewline(tree_lines[i]))
    => SplitByNewline(out_file.content) = tree_lines

\* A text file of three lines was written.
C7_Witness ==
    /\ TextSaved
    /\ Len(tree_lines) = 3
    /\ \A i \in 1..Len(tree_lines) : ~HasNewline(tree_lines[i])
    /\ SplitByNewline(out_file.content) = tree_lines

\* C8: an error while saving, creating the output directory included, is
\* caught and reported; the run ends normally without success message,
\* open prompt or open.
C8_SaveErrorsCaught ==
    (fault \in {"mkdir", "save"}) =>
        /\ ~raised
        /\ pc = "done"
        /\ Has("save_error")
        /\ ~Has("saved")
        /\ ~Has("ask_open")
        /\ ~opened

\* The answer, trimmed and lower-cased, is p or t: one of the letters p, P,
\* t, T with nothing but whitespace around it.
AnswerIsPOrT(raw) ==
    \E i \in 1..Len(raw) :
        /\ raw[i] \in {"p", "P", "t", "T"}
        /\ \A j \in (1..Len(raw)) \ {i} : raw[j] \in Whitespace

\* C10: the output directory, the save, the open prompt and the open come
\* only after an answer p or t to the format prompt; after any other answer
\* the run ends cancelled, with nothing created, written, asked or opened;
\* a file is opened only after a save that completed without error.
C10_SaveOnlyAfterPOrT ==
    /\ (documents_dir \/ out_file # NoFile \/ Has("saved") \/ Has("ask_open") \/ opened)
          => (Has("ask_format") /\ AnswerIsPOrT(raw_choice))
    /\ (Has("ask_format") /\ ~AnswerIsPOrT(raw_choice))
          => /\ pc = "done"
             /\ Has("canceled")
             /\ ~raised
             /\ ~documents_dir
             /\ out_file = NoFile
             /\ ~Has("saved")
             /\ ~Has("ask_open")
             /\ ~opened
    /\ (Has("ask_open") \/ opened)
          => /\ Has("saved")
             /\ Has("ask_open")
             /\ Position("saved") < Position("ask_open")
             /\ fault = "none"
             /\ out_file # NoFile
             /\ out_file.complete

\* The answer " P " led to a saved PDF that was opened.
C10_Witness ==
    /\ pc = "done"
    /\ raw_choice = <<" ", "P", " ">>
    /\ out_file.kind = "pdf"
    /\ opened
====
